---- MODULE Spec2Model ----
(***************************************************************************)
(* Model of src/getting_started_movies.py: the Movies facade over one      *)
(* remote DynamoDB table, together with the part of the service that the   *)
(* facade's calls observe (table existence, stored items, paged reads,     *)
(* service errors).                                                        *)
(*                                                                         *)
(* State: the cached handle self.table, the service's tables, the outcome  *)
(* of the last call (return value or exception, what was logged, and the   *)
(* requests that were sent), and the position of the caller.               *)
(***************************************************************************)
EXTENDS Integers, Sequences, FiniteSets, TLC

VARIABLES table, tables, ret, pc

vars == <<table, tables, ret, pc>>

(* ------------------------------ bounds -------------------------------- *)

\* Largest number of items the service evaluates for one page of a
\* Query or Scan (the service's 1 MB page limit, counted in items).
MaxPage == 2

\* Longest list of movies handed to write_batch.
MaxBatch == 2

\* Largest number of items a table holds while any client of the class
\* adds to it.
MaxItems == 2

(* ----------------------------- universe ------------------------------- *)

\* Python's None, as the value of self.table.
None == "None"

\* table_name = "movies"
TableNames == {"movies"}

\* The years and titles of the records of __main__, in the order in which
\* the service stores them (partition by partition, sort key ascending).
YearSeq == <<1994, 1999>>

TitleSeq == <<"The Matrix", "The Shawshank Redemption">>

Years == {YearSeq[i] : i \in 1..Len(YearSeq)}

Titles == {TitleSeq[i] : i \in 1..Len(TitleSeq)}

\* The plot of "The Matrix" in __main__.
MatrixPlot ==
  "A computer hacker learns about the true nature of reality and his role in the war against its controllers."

Plots == {MatrixPlot, "Two imprisoned"}

\* Ratings as the caller passes them to add_movie and update_movie:
\* floats with one decimal place, held as a number of tenths (87 is 8.7).
RatingInputs == {50, 87}

\* str(rating) of such a float: "8.7", "5.0".
PyStr(rating) == ToString(rating \div 10) \o "." \o ToString(rating % 10)

\* Decimal(s): an exact decimal, identified by its digits.
Decimal(s) == [decimal |-> s]

\* Decimal(str(rating))
DecimalOfStr(rating) == Decimal(PyStr(rating))

Ratings == {DecimalOfStr(r) : r \in RatingInputs}

Infos == [plot : Plots, rating : Ratings]

Keys == [year : Years, title : Titles]

Items == [year : Years, title : Titles, info : Infos]

\* The absent key: no ExclusiveStartKey, no LastEvaluatedKey.
NoneKey == [year |-> 0, title |-> ""]

KeyOf(item) == [year |-> item.year, title |-> item.title]

KeySeq ==
  [i \in 1..(Len(YearSeq) * Len(TitleSeq)) |->
     [year  |-> YearSeq[((i - 1) \div Len(TitleSeq)) + 1],
      title |-> TitleSeq[((i - 1) % Len(TitleSeq)) + 1]]]

\* A table's content: items with pairwise different (year, title).
\* No item under a key.
NoInfo == [plot |-> "", rating |-> Decimal("")]

Contents ==
  {{[year |-> k.year, title |-> k.title, info |-> f[k]] : k \in {x \in Keys : f[x] # NoInfo}} :
     f \in [Keys -> Infos \cup {NoInfo}]}

AbsentTable == [exists |-> FALSE, items |-> {}]

TableStates ==
  {AbsentTable} \cup
  {[exists |-> TRUE, items |-> c] : c \in {x \in Contents : Cardinality(x) <= MaxItems}}

\* Error codes a request can be answered with whatever the table's state.
Faults == {"none", "AccessDeniedException"}

\* The year ranges scan_movies is called with: {"start": 1950, "end": 2015}
\* and two ranges that cut the stored years.
YearRanges ==
  {[start |-> 1950, end |-> 2015], [start |-> 1950, end |-> 1994],
   [start |-> 1999, end |-> 2015]}


RECURSIVE SeqsUpTo(_, _)
SeqsUpTo(S, n) ==
  IF n = 0 THEN {<<>>}
  ELSE LET shorter == SeqsUpTo(S, n - 1)
       IN  shorter \cup {Append(s, x) : s \in {t \in shorter : Len(t) = n - 1}, x \in S}

\* The two movies of __main__.
MainBatch ==
  << [year |-> 1999, title |-> "The Matrix",
      info |-> [plot |-> MatrixPlot, rating |-> Decimal("8.7")]],
     [year |-> 1994, title |-> "The Shawshank Redemption",
      info |-> [plot |-> "Two imprisoned", rating |-> Decimal("8.7")]] >>

\* The items write_batch is called with: those of __main__.
BatchItems == {MainBatch[i] : i \in 1..Len(MainBatch)}

Batches == SeqsUpTo(BatchItems, MaxBatch)

(* ------------------------ the last call's outcome --------------------- *)

\* One request sent to the service and its answer.
Req(api, ans) ==
  [api |-> api, ans |-> ans, start |-> NoneKey, items |-> <<>>, lek |-> NoneKey]

PageReq(api, start, items, lek) ==
  [api |-> api, ans |-> "ok", start |-> start, items |-> items, lek |-> lek]

Returned(op, args, val, reqs) ==
  [op |-> op, args |-> args, exc |-> "none", code |-> "", val |-> val,
   logged |-> FALSE, reqs |-> reqs]

\* except ClientError as err: logger.error(...); raise
RaisedClientError(op, args, code, reqs) ==
  [op |-> op, args |-> args, exc |-> "ClientError", code |-> code, val |-> None,
   logged |-> TRUE, reqs |-> reqs]

\* An exception no except clause of the method catches.
RaisedOther(op, args, exc, logged, reqs) ==
  [op |-> op, args |-> args, exc |-> exc, code |-> "", val |-> None,
   logged |-> logged, reqs |-> reqs]

Outcome(t, ts, r) == [table |-> t, tables |-> ts, ret |-> r]

(* ------------------------------ the service --------------------------- *)

\* What a request on the table named by the handle is answered with: the
\* injected fault, else ResourceNotFoundException when the table is gone.
TableAns(fault) ==
  IF fault # "none" THEN fault
  ELSE IF tables[table].exists THEN "ok" ELSE "ResourceNotFoundException"

HasKey(items, k) == \E i \in items : KeyOf(i) = k

ItemAt(items, k) == CHOOSE i \in items : KeyOf(i) = k

\* PutItem: unconditional upsert under the item's key.
PutItem(items, item) == {i \in items : KeyOf(i) # KeyOf(item)} \cup {item}

\* DeleteItem: unconditional, no error when the key holds nothing.
DeleteItem(items, k) == {i \in items : KeyOf(i) # k}

\* UpdateItem with "set info.rating=:r, info.plot=:p".
UpdateItem(items, k, r, p) ==
  {IF KeyOf(i) = k THEN [i EXCEPT !.info.rating = r, !.info.plot = p] ELSE i : i \in items}

\* The stored items in the order the service reads them.
Ordered(items) ==
  LET ks == SelectSeq(KeySeq, LAMBDA k : HasKey(items, k))
  IN  [j \in 1..Len(ks) |-> ItemAt(items, ks[j])]

IndexOfKey(seq, k) ==
  IF k = NoneKey THEN 0
  ELSE Cardinality({j \in 1..Len(seq) : \E n \in 1..Len(KeySeq) : \E m \in 1..n :
                       KeySeq[n] = k /\ KeySeq[m] = KeyOf(seq[j])})

\* One page of a paged read over the candidate items `seq`: the service
\* evaluates at most `limit` items after `start` and hands back a
\* LastEvaluatedKey when it stopped at the limit (when the limit falls on
\* the last item it may or may not hand one back).
Page(api, seq, start, limit, lekAtEnd) ==
  LET from == IndexOfKey(seq, start)
      to   == IF from + limit < Len(seq) THEN from + limit ELSE Len(seq)
      more == \/ from + limit < Len(seq)
              \/ from + limit = Len(seq) /\ lekAtEnd /\ Len(seq) > 0
  IN  PageReq(api, start, SubSeq(seq, from + 1, to),
              IF more THEN KeyOf(seq[to]) ELSE NoneKey)

\* ProjectionExpression "#yr, title, info.rating"
Project(item) ==
  [year |-> item.year, title |-> item.title, info |-> [rating |-> item.info.rating]]

\* Key("year").between(start, end)
Between(item, year_range) == year_range.start <= item.year /\ item.year <= year_range.end

\* Table.scan(**scan_kwargs): of the items evaluated for the page, those
\* that pass the filter are returned, projected.
ScanPage(items, year_range, start, limit, lekAtEnd) ==
  LET page == Page("Scan", Ordered(items), start, limit, lekAtEnd)
      kept == SelectSeq(page.items, LAMBDA i : Between(i, year_range))
  IN  [page EXCEPT !.items = [j \in 1..Len(kept) |-> Project(kept[j])]]

\* Table.query(KeyConditionExpression=Key("year").eq(year)): only the
\* items of the partition are read, and returned whole.
QueryPage(items, year, start, limit, lekAtEnd) ==
  Page("Query", Ordered({i \in items : i.year = year}), start, limit, lekAtEnd)

(* ------------------------------ the facade ---------------------------- *)

\* Movies.__init__: self.table = None
NewFacade == None

\* exist without its else branch: the handle is never cached.
exist_not_cached(table_name, fault) ==
  LET args == [table_name |-> table_name]
      ans  == IF fault # "none" THEN fault
              ELSE IF tables[table_name].exists THEN "ok"
              ELSE "ResourceNotFoundException"
      reqs == <<Req("DescribeTable", ans)>>
  IN  IF ans = "ok"
      THEN Outcome(table, tables, Returned("exist", args, TRUE, reqs))
      ELSE IF ans = "ResourceNotFoundException"
      THEN Outcome(table, tables, Returned("exist", args, FALSE, reqs))
      ELSE Outcome(table, tables, RaisedOther("exist", args, "UnboundLocalError", TRUE, reqs))

\* Movies.exist(table_name); `fault` is what table.load() is answered with
\* beyond the table's own state.
exist(table_name, fault) ==
  LET args == [table_name |-> table_name]
      ans  == IF fault # "none" THEN fault
              ELSE IF tables[table_name].exists THEN "ok"
              ELSE "ResourceNotFoundException"
      reqs == <<Req("DescribeTable", ans)>>
  IN  IF ans = "ok"
      THEN \* exists = True; else: self.table = table; return exists
           Outcome(table_name, tables, Returned("exist", args, TRUE, reqs))
      ELSE IF ans = "ResourceNotFoundException"
      THEN \* exists = False; return exists
           Outcome(table, tables, Returned("exist", args, FALSE, reqs))
      ELSE \* logger.error(...); `exists` was never bound: return exists raises
           Outcome(table, tables, RaisedOther("exist", args, "UnboundLocalError", TRUE, reqs))

\* Movies.create_table(table_name); fault1 for the creation request,
\* fault2 for wait_until_exists.
create_table(table_name, fault1, fault2) ==
  LET args == [table_name |-> table_name]
      ans1 == IF fault1 # "none" THEN fault1
              ELSE IF tables[table_name].exists THEN "ResourceInUseException"
              ELSE "ok"
      created == [tables EXCEPT ![table_name] = [exists |-> TRUE, items |-> {}]]
      req1 == Req("CreateTable", ans1)
      req2 == Req("WaitUntilExists", IF fault2 # "none" THEN fault2 ELSE "ok")
  IN  IF ans1 # "ok"
      THEN Outcome(table, tables, RaisedClientError("create_table", args, ans1, <<req1>>))
      ELSE IF fault2 # "none"
      THEN \* self.table is already assigned when the wait raises
           Outcome(table_name, created,
                   RaisedClientError("create_table", args, fault2, <<req1, req2>>))
      ELSE Outcome(table_name, created,
                   Returned("create_table", args, table_name, <<req1, req2>>))

\* put_item after the loop instead of inside it: only the last movie is put.
PutLastOnly(items, movies) ==
  IF movies = <<>> THEN items ELSE PutItem(items, movies[Len(movies)])

\* for movie in movies: writer.put_item(Item=movie)
RECURSIVE PutAll(_, _)
PutAll(items, movies) ==
  IF movies = <<>> THEN items
  ELSE PutAll(PutItem(items, Head(movies)), Tail(movies))

\* Movies.write_batch(movies): one batch request on leaving the context
\* manager; nothing is sent for an empty list.
write_batch(movies, fault) ==
  LET args == [movies |-> movies]
      dup  == \E i, j \in 1..Len(movies) : i # j /\ KeyOf(movies[i]) = KeyOf(movies[j])
      ans  == IF TableAns(fault) # "ok" THEN TableAns(fault)
              ELSE IF dup THEN "ValidationException" ELSE "ok"
      reqs == <<Req("BatchWriteItem", ans)>>
      new  == PutAll(tables[table].items, movies)
  IN  IF table = None
      THEN Outcome(table, tables, RaisedOther("write_batch", args, "AttributeError", FALSE, <<>>))
      ELSE IF movies = <<>>
      THEN Outcome(table, tables, Returned("write_batch", args, None, <<>>))
      ELSE IF ans # "ok"
      THEN Outcome(table, tables, RaisedClientError("write_batch", args, ans, reqs))
      ELSE Outcome(table, [tables EXCEPT ![table].items = new],
                   Returned("write_batch", args, None, reqs))

\* add_movie returning quietly when no table is cached.
add_movie_unset_ignored(title, year, plot, rating, fault) ==
  LET args == [title |-> title, year |-> year, plot |-> plot, rating |-> rating]
      item == [year |-> year, title |-> title,
               info |-> [plot |-> plot, rating |-> DecimalOfStr(rating)]]
      ans  == TableAns(fault)
      reqs == <<Req("PutItem", ans)>>
  IN  IF table = None
      THEN Outcome(table, tables, Returned("add_movie", args, None, <<>>))
      ELSE IF ans # "ok"
      THEN Outcome(table, tables, RaisedClientError("add_movie", args, ans, reqs))
      ELSE Outcome(table, [tables EXCEPT ![table].items = PutItem(@, item)],
                   Returned("add_movie", args, None, reqs))

\* Movies.add_movie(title, year, plot, rating)
add_movie(title, year, plot, rating, fault) ==
  LET args == [title |-> title, year |-> year, plot |-> plot, rating |-> rating]
      item == [year |-> year, title |-> title,
               info |-> [plot |-> plot, rating |-> DecimalOfStr(rating)]]
      ans  == TableAns(fault)
      reqs == <<Req("PutItem", ans)>>
  IN  IF table = None
      THEN \* logger.info(..., self.table.name)
           Outcome(table, tables, RaisedOther("add_movie", args, "AttributeError", FALSE, <<>>))
      ELSE IF ans # "ok"
      THEN Outcome(table, tables, RaisedClientError("add_movie", args, ans, reqs))
      ELSE Outcome(table, [tables EXCEPT ![table].items = PutItem(@, item)],
                   Returned("add_movie", args, None, reqs))

\* Movies.get_movie(title, year)
get_movie(title, year, fault) ==
  LET args == [title |-> title, year |-> year]
      k    == [year |-> year, title |-> title]
      ans  == TableAns(fault)
      reqs == <<Req("GetItem", ans)>>
  IN  IF table = None
      THEN Outcome(table, tables, RaisedOther("get_movie", args, "AttributeError", FALSE, <<>>))
      ELSE IF ans # "ok"
      THEN Outcome(table, tables, RaisedClientError("get_movie", args, ans, reqs))
      ELSE IF ~HasKey(tables[table].items, k)
      THEN \* the response has no "Item": response["Item"] raises
           Outcome(table, tables, RaisedOther("get_movie", args, "KeyError", FALSE, reqs))
      ELSE Outcome(table, tables,
                   Returned("get_movie", args, ItemAt(tables[table].items, k), reqs))

\* update_movie with the update expression "set info.rating=:r".
update_movie_rating_only(title, year, rating, plot, fault) ==
  LET args == [title |-> title, year |-> year, rating |-> rating, plot |-> plot]
      k    == [year |-> year, title |-> title]
      r    == DecimalOfStr(rating)
      ans  == IF TableAns(fault) # "ok" THEN TableAns(fault)
              ELSE IF ~HasKey(tables[table].items, k) THEN "ValidationException"
              ELSE "ok"
      reqs == <<Req("UpdateItem", ans)>>
      new  == UpdateItem(tables[table].items, k, r, ItemAt(tables[table].items, k).info.plot)
      updated == ItemAt(new, k)
  IN  IF table = None
      THEN Outcome(table, tables, RaisedOther("update_movie", args, "AttributeError", FALSE, <<>>))
      ELSE IF ans # "ok"
      THEN Outcome(table, tables, RaisedClientError("update_movie", args, ans, reqs))
      ELSE Outcome(table, [tables EXCEPT ![table].items = new],
                   Returned("update_movie", args,
                            [info |-> [rating |-> updated.info.rating,
                                       plot |-> updated.info.plot]], reqs))

\* Movies.update_movie(title, year, rating, plot); the update expression
\* is invalid for a key that holds no item (no `info` map to set into).
update_movie(title, year, rating, plot, fault) ==
  LET args == [title |-> title, year |-> year, rating |-> rating, plot |-> plot]
      k    == [year |-> year, title |-> title]
      r    == DecimalOfStr(rating)
      ans  == IF TableAns(fault) # "ok" THEN TableAns(fault)
              ELSE IF ~HasKey(tables[table].items, k) THEN "ValidationException"
              ELSE "ok"
      reqs == <<Req("UpdateItem", ans)>>
      new  == UpdateItem(tables[table].items, k, r, plot)
      updated == ItemAt(new, k)
  IN  IF table = None
      THEN Outcome(table, tables, RaisedOther("update_movie", args, "AttributeError", FALSE, <<>>))
      ELSE IF ans # "ok"
      THEN Outcome(table, tables, RaisedClientError("update_movie", args, ans, reqs))
      ELSE \* ReturnValues="UPDATED_NEW": response["Attributes"]
           Outcome(table, [tables EXCEPT ![table].items = new],
                   Returned("update_movie", args,
                            [info |-> [rating |-> updated.info.rating,
                                       plot |-> updated.info.plot]], reqs))

\* Movies.query_movies(year): one request, response["Items"].
query_movies(year, fault, limit, lekAtEnd) ==
  LET args == [year |-> year]
      ans  == TableAns(fault)
      page == QueryPage(tables[table].items, year, NoneKey, limit, lekAtEnd)
  IN  IF table = None
      THEN Outcome(table, tables, RaisedOther("query_movies", args, "AttributeError", FALSE, <<>>))
      ELSE IF ans # "ok"
      THEN Outcome(table, tables,
                   RaisedClientError("query_movies", args, ans, <<Req("Query", ans)>>))
      ELSE Outcome(table, tables, Returned("query_movies", args, page.items, <<page>>))

\* Movies.delete_movie(title, year)
delete_movie(title, year, fault) ==
  LET args == [title |-> title, year |-> year]
      k    == [year |-> year, title |-> title]
      ans  == TableAns(fault)
      reqs == <<Req("DeleteItem", ans)>>
  IN  IF table = None
      THEN Outcome(table, tables, RaisedOther("delete_movie", args, "AttributeError", FALSE, <<>>))
      ELSE IF ans # "ok"
      THEN Outcome(table, tables, RaisedClientError("delete_movie", args, ans, reqs))
      ELSE Outcome(table, [tables EXCEPT ![table].items = DeleteItem(@, k)],
                   Returned("delete_movie", args, None, reqs))

\* delete_table clearing the handle before the wait.
delete_table_clears_early(fault1, fault2) ==
  LET args == [table_name |-> table]
      ans1 == TableAns(fault1)
      gone == [tables EXCEPT ![table] = AbsentTable]
      req1 == Req("DeleteTable", ans1)
      req2 == Req("WaitUntilNotExists", IF fault2 # "none" THEN fault2 ELSE "ok")
  IN  IF table = None
      THEN Outcome(table, tables, RaisedOther("delete_table", args, "AttributeError", FALSE, <<>>))
      ELSE IF ans1 # "ok"
      THEN Outcome(table, tables, RaisedClientError("delete_table", args, ans1, <<req1>>))
      ELSE IF fault2 # "none"
      THEN Outcome(None, gone, RaisedClientError("delete_table", args, fault2, <<req1, req2>>))
      ELSE Outcome(None, gone, Returned("delete_table", args, None, <<req1, req2>>))

\* Movies.delete_table(); fault1 for the deletion request, fault2 for
\* wait_until_not_exists.
delete_table(fault1, fault2) ==
  LET args == [table_name |-> table]
      ans1 == TableAns(fault1)
      gone == [tables EXCEPT ![table] = AbsentTable]
      req1 == Req("DeleteTable", ans1)
      req2 == Req("WaitUntilNotExists", IF fault2 # "none" THEN fault2 ELSE "ok")
  IN  IF table = None
      THEN Outcome(table, tables, RaisedOther("delete_table", args, "AttributeError", FALSE, <<>>))
      ELSE IF ans1 # "ok"
      THEN Outcome(table, tables, RaisedClientError("delete_table", args, ans1, <<req1>>))
      ELSE IF fault2 # "none"
      THEN Outcome(table, gone, RaisedClientError("delete_table", args, fault2, <<req1, req2>>))
      ELSE \* self.table = None
           Outcome(None, gone, Returned("delete_table", args, None, <<req1, req2>>))

\* The requests of scan_movies at which a fault can be injected (0: none).
FaultAts == {0, 1, 2}

\* The loop left after its first request, whatever the response holds.
ScanLoopOnePage(year_range, movies, start_key, reqs, n, faultAt, limit, lekAtEnd) ==
  LET ans  == TableAns(IF faultAt = n THEN "AccessDeniedException" ELSE "none")
      page == ScanPage(tables[table].items, year_range, start_key, limit, lekAtEnd)
  IN  IF ans # "ok"
      THEN [exc |-> "ClientError", code |-> ans, movies |-> movies,
            reqs |-> Append(reqs, Req("Scan", ans))]
      ELSE [exc |-> "none", code |-> "", movies |-> movies \o page.items,
            reqs |-> Append(reqs, page)]

\* The while loop of scan_movies, from its n-th request on: the items
\* gathered so far, the start key, the requests sent so far.
RECURSIVE ScanLoop(_, _, _, _, _, _, _, _)
ScanLoop(year_range, movies, start_key, reqs, n, faultAt, limit, lekAtEnd) ==
  LET ans  == TableAns(IF faultAt = n THEN "AccessDeniedException" ELSE "none")
      page == ScanPage(tables[table].items, year_range, start_key, limit, lekAtEnd)
  IN  IF ans # "ok"
      THEN [exc |-> "ClientError", code |-> ans, movies |-> movies,
            reqs |-> Append(reqs, Req("Scan", ans))]
      ELSE IF page.lek = NoneKey
      THEN \* done = start_key is None
           [exc |-> "none", code |-> "", movies |-> movies \o page.items,
            reqs |-> Append(reqs, page)]
      ELSE ScanLoop(year_range, movies \o page.items, page.lek, Append(reqs, page),
                    n + 1, faultAt, limit, lekAtEnd)

\* Movies.scan_movies(year_range)
scan_movies(year_range, faultAt, limit, lekAtEnd) ==
  LET args == [year_range |-> year_range]
      loop == ScanLoop(year_range, <<>>, NoneKey, <<>>, 1, faultAt, limit, lekAtEnd)
  IN  IF table = None
      THEN Outcome(table, tables, RaisedOther("scan_movies", args, "AttributeError", FALSE, <<>>))
      ELSE IF loop.exc # "none"
      THEN Outcome(table, tables, RaisedClientError("scan_movies", args, loop.code, loop.reqs))
      ELSE Outcome(table, tables, Returned("scan_movies", args, loop.movies, loop.reqs))

(* ------------------------------ the callers --------------------------- *)

\* A call's effect on the state, and where the caller goes next.
Apply(r, next) ==
  /\ table' = r.table
  /\ tables' = r.tables
  /\ ret' = r.ret
  /\ pc' = next

NoCall ==
  [op |-> "init", args |-> [table_name |-> None], exc |-> "none", code |-> "",
   val |-> None, logged |-> FALSE, reqs |-> <<>>]

\* A facade just constructed, over a service in any state; the caller is
\* the script's __main__ ("main"), the end-to-end scenario on a table that
\* does not exist yet ("e2e"), or any client of the class ("api").
Init ==
  /\ table = NewFacade
  /\ pc \in {"api", "main", "e2e"}
  /\ tables \in [TableNames -> TableStates]
  /\ pc = "e2e" => \A n \in TableNames : ~tables[n].exists
  /\ ret = NoCall

(* any client of the class: every method, in any order *)

\* The call leaves at most MaxItems items in every table.
Bounded(r) == \A n \in TableNames : Cardinality(r.tables[n].items) <= MaxItems

ApiExist ==
  /\ pc = "api"
  /\ \E n \in TableNames, f \in Faults : Apply(exist(n, f), "api")

ApiCreateTable ==
  /\ pc = "api"
  /\ \E n \in TableNames, f1 \in Faults, f2 \in Faults : Apply(create_table(n, f1, f2), "api")

ApiWriteBatch ==
  /\ pc = "api"
  /\ \E ms \in Batches, f \in Faults :
       LET r == write_batch(ms, f) IN Bounded(r) /\ Apply(r, "api")

ApiAddMovie ==
  /\ pc = "api"
  /\ \E t \in Titles, y \in Years, p \in Plots, r \in RatingInputs, f \in Faults :
       LET o == add_movie(t, y, p, r, f) IN Bounded(o) /\ Apply(o, "api")

ApiGetMovie ==
  /\ pc = "api"
  /\ \E t \in Titles, y \in Years, f \in Faults : Apply(get_movie(t, y, f), "api")

ApiUpdateMovie ==
  /\ pc = "api"
  /\ \E t \in Titles, y \in Years, r \in RatingInputs, p \in Plots, f \in Faults :
       Apply(update_movie(t, y, r, p, f), "api")

ApiQueryMovies ==
  /\ pc = "api"
  /\ \E y \in Years, f \in Faults, l \in 1..MaxPage, e \in BOOLEAN :
       Apply(query_movies(y, f, l, e), "api")

ApiScanMovies ==
  /\ pc = "api"
  /\ \E yr \in YearRanges, fa \in FaultAts, l \in 1..MaxPage, e \in BOOLEAN :
       Apply(scan_movies(yr, fa, l, e), "api")

ApiDeleteMovie ==
  /\ pc = "api"
  /\ \E t \in Titles, y \in Years, f \in Faults : Apply(delete_movie(t, y, f), "api")

ApiDeleteTable ==
  /\ pc = "api"
  /\ \E f1 \in Faults, f2 \in Faults : Apply(delete_table(f1, f2), "api")

(* __main__ *)

\* Where a caller that stops at the first exception goes after a call.
After(r, next, failed) == IF r.ret.exc # "none" THEN failed ELSE next

\* if movies.exist(table_name):
MainExist ==
  /\ pc = "main"
  /\ \E f \in Faults :
       LET r == exist("movies", f)
       IN  Apply(r, After(r, IF r.ret.val = TRUE THEN "main_write_batch"
                             ELSE "main_create_table", "main_except"))

\* movies.write_batch(write_batch)
MainWriteBatch ==
  /\ pc = "main_write_batch"
  /\ \E f \in Faults :
       LET r == write_batch(MainBatch, f) IN Apply(r, After(r, "main_end", "main_except"))

\* movies.create_table(table_name)
MainCreateTable ==
  /\ pc = "main_create_table"
  /\ \E f1 \in Faults, f2 \in Faults :
       LET r == create_table("movies", f1, f2)
       IN  Apply(r, After(r, "main_end", "main_except"))

(* the end-to-end scenario: exist, create_table, exist, write_batch,     *)
(* query_movies(1999), delete_table, exist                               *)

E2EExist ==
  /\ pc = "e2e"
  /\ \E f \in Faults :
       LET r == exist("movies", f) IN Apply(r, After(r, "e2e_create_table", "e2e_abort"))

E2ECreateTable ==
  /\ pc = "e2e_create_table"
  /\ \E f1 \in Faults, f2 \in Faults :
       LET r == create_table("movies", f1, f2)
       IN  Apply(r, After(r, "e2e_exist", "e2e_abort"))

E2EExistAfterCreate ==
  /\ pc = "e2e_exist"
  /\ \E f \in Faults :
       LET r == exist("movies", f) IN Apply(r, After(r, "e2e_write_batch", "e2e_abort"))

E2EWriteBatch ==
  /\ pc = "e2e_write_batch"
  /\ \E f \in Faults :
       LET r == write_batch(MainBatch, f) IN Apply(r, After(r, "e2e_query", "e2e_abort"))

E2EQuery ==
  /\ pc = "e2e_query"
  /\ \E f \in Faults, l \in 1..MaxPage, e \in BOOLEAN :
       LET r == query_movies(1999, f, l, e)
       IN  Apply(r, After(r, "e2e_delete_table", "e2e_abort"))

E2EDeleteTable ==
  /\ pc = "e2e_delete_table"
  /\ \E f1 \in Faults, f2 \in Faults :
       LET r == delete_table(f1, f2) IN Apply(r, After(r, "e2e_exist_end", "e2e_abort"))

E2EExistAfterDelete ==
  /\ pc = "e2e_exist_end"
  /\ \E f \in Faults :
       LET r == exist("movies", f) IN Apply(r, After(r, "e2e_end", "e2e_abort"))

Next ==
  \/ ApiExist
  \/ ApiCreateTable
  \/ ApiWriteBatch
  \/ ApiAddMovie
  \/ ApiGetMovie
  \/ ApiUpdateMovie
  \/ ApiQueryMovies
  \/ ApiScanMovies
  \/ ApiDeleteMovie
  \/ ApiDeleteTable
  \/ MainExist
  \/ MainWriteBatch
  \/ MainCreateTable
  \/ E2EExist
  \/ E2ECreateTable
  \/ E2EExistAfterCreate
  \/ E2EWriteBatch
  \/ E2EQuery
  \/ E2EDeleteTable
  \/ E2EExistAfterDelete

Spec == Init /\ [][Next]_vars

(* ------------------------------ the claims ---------------------------- *)

\* The elements of a sequence.
Range(seq) == {seq[i] : i \in 1..Len(seq)}

RECURSIVE ConcatItems(_)
ConcatItems(reqs) ==
  IF reqs = <<>> THEN <<>> ELSE Head(reqs).items \o ConcatItems(Tail(reqs))

\* The methods that go through self.table before anything else.
HandleOps ==
  {"add_movie", "get_movie", "update_movie", "delete_movie", "query_movies",
   "scan_movies", "write_batch", "delete_table"}

\* C1: a scan_movies call that returns has sent its first request without
\* a start key and every later one with the LastEvaluatedKey of the page
\* before, has stopped at the first page without a LastEvaluatedKey, and
\* returns the pages' items concatenated: exactly the stored records with
\* start <= year <= end, each once and projected to year, title, info.rating.
C1_ScanReturnsEveryPage ==
  (ret.op = "scan_movies" /\ ret.exc = "none") =>
    LET n == Len(ret.reqs)
        inRange == {i \in tables[table].items : Between(i, ret.args.year_range)}
    IN  /\ n >= 1
        /\ ret.reqs[n].lek = NoneKey
        /\ \A i \in 1..(n - 1) : ret.reqs[i].lek # NoneKey
        /\ ret.reqs[1].start = NoneKey
        /\ \A i \in 2..n : ret.reqs[i].start = ret.reqs[i - 1].lek
        /\ ret.val = ConcatItems(ret.reqs)
        /\ Range(ret.val) = {Project(i) : i \in inRange}
        /\ Len(ret.val) = Cardinality(inRange)

\* C1 witness: a scan over several pages that returns some of the stored
\* records and leaves another out.
C1_Witness ==
  /\ ret.op = "scan_movies" /\ ret.exc = "none"
  /\ Len(ret.reqs) >= 2
  /\ Len(ret.val) >= 1
  /\ Len(ret.val) < Cardinality(tables[table].items)

\* C2: exist(table_name) returns True and caches the named table when the
\* load succeeds; on ResourceNotFoundException it returns False and the
\* cached handle is the one from before the call.
C2_ExistFoundOrNotFound ==
  [][ret'.op = "exist" =>
       /\ ret'.reqs[1].ans = "ok" =>
            ret'.exc = "none" /\ ret'.val = TRUE /\ table' = ret'.args.table_name
       /\ ret'.reqs[1].ans = "ResourceNotFoundException" =>
            ret'.exc = "none" /\ ret'.val = FALSE /\ table' = table]_vars

\* C2 witness: exist has found the table and cached it.
C2_Witness ==
  /\ ret.op = "exist" /\ ret.exc = "none" /\ ret.val = TRUE
  /\ table = ret.args.table_name

\* C3: an exist call answered with an error other than "resource not
\* found" logs it and completes without raising.
C3_ExistOtherErrorDoesNotRaise ==
  (ret.op = "exist" /\ ret.reqs[1].ans \notin {"ok", "ResourceNotFoundException"}) =>
    ret.logged /\ ret.exc = "none"

\* C4: the handle becomes set only by an exist that found the table or by
\* a create_table that completed, becomes unset only by a delete_table that
\* completed, and a create_table that fails leaves an unset handle unset.
C4_HandleLifecycle ==
  [][/\ (table = None /\ table' # None) =>
          \/ ret'.op = "exist" /\ ret'.exc = "none" /\ ret'.val = TRUE
          \/ ret'.op = "create_table" /\ ret'.exc = "none"
     /\ (table # None /\ table' = None) =>
          ret'.op = "delete_table" /\ ret'.exc = "none"
     /\ (table = None /\ ret'.op = "create_table" /\ ret'.exc # "none") =>
          table' = None]_vars

\* C5: in the end-to-end scenario on a fresh facade, exist returns False
\* before create_table and True after it, query_movies(1999) after the
\* write_batch of the two movies returns exactly one record, titled
\* "The Matrix", and exist returns False after delete_table.
C5_EndToEnd ==
  /\ pc = "e2e_create_table" => ret.op = "exist" /\ ret.val = FALSE
  /\ pc = "e2e_write_batch" => ret.op = "exist" /\ ret.val = TRUE
  /\ pc = "e2e_delete_table" =>
       ret.op = "query_movies" /\ Len(ret.val) = 1 /\ ret.val[1].title = "The Matrix"
  /\ pc = "e2e_end" => ret.op = "exist" /\ ret.val = FALSE

\* C5 witness: the scenario has run to its end.
C5_Witness == pc = "e2e_end"

\* C6: a query_movies call that returns, returns exactly the stored
\* records of the year, each once.
C6_QueryReturnsAllOfYear ==
  (ret.op = "query_movies" /\ ret.exc = "none") =>
    LET ofYear == {i \in tables[table].items : i.year = ret.args.year}
    IN  Range(ret.val) = ofYear /\ Len(ret.val) = Cardinality(ofYear)

\* C7: delete_movie on a key without a record returns and leaves the
\* table as it was, and get_movie on a key without a record fails with the
\* service's error signalling absence.
C7_GetAbsentIsServiceError ==
  /\ [][(/\ ret'.op = "delete_movie" /\ ret'.reqs # <<>> /\ ret'.reqs[1].ans = "ok"
         /\ ~HasKey(tables[table].items,
                    [year |-> ret'.args.year, title |-> ret'.args.title])) =>
          ret'.exc = "none" /\ tables' = tables]_vars
  /\ []((/\ ret.op = "get_movie" /\ ret.reqs # <<>> /\ ret.reqs[1].ans = "ok"
         /\ ~HasKey(tables[table].items,
                    [year |-> ret.args.year, title |-> ret.args.title])) =>
          ret.exc = "ClientError" /\ ret.logged)

\* C8: delete_table clears the handle only when the deletion request and
\* the wait both succeeded and the table is gone; an error of either is
\* logged and raised with the service's code, and the handle is the one
\* from before the call.
C8_DeleteTableClearsLast ==
  [][ret'.op = "delete_table" =>
       /\ (table # None /\ table' = None) =>
            /\ ret'.exc = "none"
            /\ Len(ret'.reqs) = 2
            /\ \A i \in 1..2 : ret'.reqs[i].ans = "ok"
            /\ ~tables'[table].exists
       /\ (\E i \in 1..Len(ret'.reqs) : ret'.reqs[i].ans # "ok") =>
            /\ ret'.exc = "ClientError"
            /\ ret'.logged
            /\ ret'.code = ret'.reqs[Len(ret'.reqs)].ans
            /\ table' = table]_vars

\* C8 witness: the wait of delete_table failed after the deletion request
\* succeeded, and the handle is still set.
C8_Witness ==
  /\ ret.op = "delete_table" /\ ret.exc = "ClientError"
  /\ Len(ret.reqs) = 2
  /\ table # None

\* C9: update_movie on an existing record sets that record's info.rating
\* and info.plot to the new values, keeps its year and title and every
\* other record, adds and removes none, and returns the two new values.
C9_UpdateChangesOnlyRatingAndPlot ==
  [][LET k   == [year |-> ret'.args.year, title |-> ret'.args.title]
         old == tables[table].items
         new == tables'[table].items
     IN  (/\ ret'.op = "update_movie" /\ ret'.reqs # <<>> /\ ret'.reqs[1].ans = "ok"
          /\ HasKey(old, k)) =>
           /\ ret'.exc = "none"
           /\ table' = table
           /\ {KeyOf(i) : i \in new} = {KeyOf(i) : i \in old}
           /\ Cardinality(new) = Cardinality(old)
           /\ \A i \in old : KeyOf(i) # k => i \in new
           /\ ItemAt(new, k).info =
                [plot |-> ret'.args.plot, rating |-> Decimal(PyStr(ret'.args.rating))]
           /\ ret'.val = [info |-> [rating |-> Decimal(PyStr(ret'.args.rating)),
                                    plot |-> ret'.args.plot]]]_vars

\* C9 witness: an update of one of two stored records has returned.
C9_Witness ==
  /\ ret.op = "update_movie" /\ ret.exc = "none"
  /\ Cardinality(tables[table].items) >= 2

\* C10: a method that goes through the handle, called while the handle is
\* unset, raises, sends no request and leaves the handle unset and the
\* service as it was; and __main__ reaches write_batch only after exist
\* returned True, with the handle set.
C10_UnsetHandleFails ==
  /\ [][(table = None /\ ret'.op \in HandleOps) =>
          /\ ret'.exc = "AttributeError"
          /\ ret'.reqs = <<>>
          /\ table' = None
          /\ tables' = tables]_vars
  /\ [](pc = "main_write_batch" =>
          ret.op = "exist" /\ ret.exc = "none" /\ ret.val = TRUE /\ table # None)

\* C10 witness: delete_table called with the handle unset, on a service
\* that holds the table, has raised.
C10_Witness ==
  /\ table = None
  /\ ret.op = "delete_table" /\ ret.exc = "AttributeError"
  /\ \E n \in TableNames : tables[n].exists /\ tables[n].items # {}

====
